---- MODULE Spec2Model ----
(***************************************************************************)
(* Model of the Operation codec of js-stellar-base (src/operation.js):     *)
(* the ten operation constructors, operationToObject, isValidAmount and    *)
(* the amount and price conversions.                                       *)
(*                                                                         *)
(* A JavaScript string is a sequence of one-character strings.  A          *)
(* BigNumber is the record [k, s, c, e] of bignumber.js: kind, sign,       *)
(* coefficient digits (most significant first, no leading or trailing      *)
(* zeros) and the decimal exponent of the first digit.  Integers that may  *)
(* exceed 32 bits (amounts, int64 values) are digit sequences throughout.  *)
(***************************************************************************)
EXTENDS Integers, Sequences, FiniteSets, TLC

\* pc      where the caller is: "idle", "built" (a constructor returned),
\*         "failed" (a call threw), "decoded", "returned" (a helper returned)
\* fn      the function called last
\* opts0   the argument as the caller passed it
\* opts    the same argument object after the call
\* op      the xdr.Operation a constructor returned
\* err     the message of the error thrown, "" when none
\* result  what operationToObject or a helper returned
\* approximated  whether the call reached best_r
VARIABLES pc, fn, opts0, opts, op, err, result, approximated

vars == <<pc, fn, opts0, opts, op, err, result, approximated>>

(***************************************************************************)
(* Program constants.                                                      *)
(***************************************************************************)
\* const ONE = 10000000
ONE == 10000000

\* const MAX_INT64 = '9223372036854775807'
MAX_INT64 == <<"9","2","2","3","3","7","2","0","3","6","8","5","4","7","7","5","8","0","7">>

\* largest signed 32-bit integer: the range of xdr.Price's n and d
MAX_INT32 == 2147483647

\* bignumber.js defaults: DECIMAL_PLACES, and the exponents at which
\* toString switches to exponential notation (TO_EXP_NEG, TO_EXP_POS)
DECIMAL_PLACES == 20
TO_EXP_NEG == -7
TO_EXP_POS == 21

(***************************************************************************)
(* Characters and digit sequences.                                         *)
(***************************************************************************)
DigitChars == <<"0","1","2","3","4","5","6","7","8","9">>

DigitSet == {DigitChars[i] : i \in 1..10}

DigitVal(ch) == (CHOOSE i \in 1..10 : DigitChars[i] = ch) - 1

DigitChar(d) == DigitChars[d + 1]

AllDigitChars(str) == \A i \in 1..Len(str) : str[i] \in DigitSet

CharsToDigits(str) == [i \in 1..Len(str) |-> DigitVal(str[i])]

DigitsToChars(ds) == [i \in 1..Len(ds) |-> DigitChar(ds[i])]

Zeros(n) == [i \in 1..n |-> 0]

\* index of the first occurrence of ch in str, 0 when there is none
IndexOf(str, ch) ==
    IF \E i \in 1..Len(str) : str[i] = ch
    THEN CHOOSE i \in 1..Len(str) : str[i] = ch /\ \A j \in 1..(i - 1) : str[j] # ch
    ELSE 0

\* number of leading zeros of a digit sequence
LeadingZeros(ds) ==
    IF \A i \in 1..Len(ds) : ds[i] = 0
    THEN Len(ds)
    ELSE (CHOOSE i \in 1..Len(ds) : ds[i] # 0 /\ \A j \in 1..(i - 1) : ds[j] = 0) - 1

TrailingZeros(ds) ==
    IF \A i \in 1..Len(ds) : ds[i] = 0
    THEN Len(ds)
    ELSE Len(ds) - (CHOOSE i \in 1..Len(ds) : ds[i] # 0 /\ \A j \in (i + 1)..Len(ds) : ds[j] = 0)

\* a natural number as a digit sequence without leading zeros (<<0>> for 0)
StripLeading(ds) ==
    IF LeadingZeros(ds) = Len(ds) THEN <<0>>
    ELSE SubSeq(ds, LeadingZeros(ds) + 1, Len(ds))

StripTrailing(ds) ==
    IF TrailingZeros(ds) = Len(ds) THEN <<0>>
    ELSE SubSeq(ds, 1, Len(ds) - TrailingZeros(ds))

\* 10^k for k in 0..9, the powers of ten below 2^31
Pow10(k) == <<1, 10, 100, 1000, 10000, 100000, 1000000, 10000000, 100000000, 1000000000>>[k + 1]

\* the number of decimal digits of a natural number below 2^31
NatLen(n) == 1 + Cardinality({k \in 1..9 : n >= Pow10(k)})

NatToDigits(n) == [i \in 1..NatLen(n) |-> (n \div Pow10(NatLen(n) - i)) % 10]

RECURSIVE DigitsToNat(_)
\* only for sequences that denote a number below 2^31
DigitsToNat(ds) ==
    IF ds = <<>> THEN 0
    ELSE IF Len(ds) = 1 THEN ds[1]
    ELSE DigitsToNat(SubSeq(ds, 1, Len(ds) \div 2)) * Pow10(Len(ds) - Len(ds) \div 2)
         + DigitsToNat(SubSeq(ds, Len(ds) \div 2 + 1, Len(ds)))

\* -1, 0, 1 as the natural number a is below, equal to, above b
\* (digit sequences without leading zeros)
CmpDigits(a, b) ==
    IF Len(a) # Len(b) THEN (IF Len(a) < Len(b) THEN -1 ELSE 1)
    ELSE IF a = b THEN 0
    ELSE LET i == CHOOSE i \in 1..Len(a) : a[i] # b[i] /\ \A j \in 1..(i - 1) : a[j] = b[j]
         IN  IF a[i] < b[i] THEN -1 ELSE 1

\* the digit of ds in column i of n columns, ds aligned to the right
Col(ds, n, i) == IF i > n - Len(ds) THEN ds[i - (n - Len(ds))] ELSE 0

\* the sums of the digits of a and b, column by column
ColumnSums(a, b, n) == [i \in 1..n |-> Col(a, n, i) + Col(b, n, i)]

\* a carry enters column i when a column to its right overflows and every
\* column in between passes the carry on
CarryInto(sums, i) ==
    \E j \in (i + 1)..Len(sums) :
        sums[j] >= 10 /\ \A k \in (i + 1)..(j - 1) : sums[k] = 9

SumOfColumns(sums) ==
    [i \in 1..Len(sums) |-> (sums[i] + (IF CarryInto(sums, i) THEN 1 ELSE 0)) % 10]

\* a + b on digit sequences
AddDigits(a, b) ==
    StripLeading(SumOfColumns(ColumnSums(a, b,
                     1 + (IF Len(a) > Len(b) THEN Len(a) ELSE Len(b)))))

\* a borrow leaves column i when a column to its right is short and every
\* column in between has equal digits
BorrowFrom(a, b, i) ==
    \E j \in (i + 1)..Len(a) :
        /\ a[j] < Col(b, Len(a), j)
        /\ \A k \in (i + 1)..(j - 1) : a[k] = Col(b, Len(a), k)

\* a - b on digit sequences, for a >= b
SubDigits(a, b) ==
    StripLeading([i \in 1..Len(a) |->
        (a[i] + 10 - Col(b, Len(a), i) - (IF BorrowFrom(a, b, i) THEN 1 ELSE 0)) % 10])

RECURSIVE MulSmall(_, _)
\* ds * m for 0 <= m <= 10^7, by halves
MulSmall(ds, m) ==
    IF Len(ds) <= 2 THEN NatToDigits(DigitsToNat(ds) * m)
    ELSE AddDigits(MulSmall(SubSeq(ds, 1, Len(ds) \div 2), m)
                       \o Zeros(Len(ds) - Len(ds) \div 2),
                   MulSmall(SubSeq(ds, Len(ds) \div 2 + 1, Len(ds)), m))

\* the digit sequence of ds * m + a, for 0 <= m <= 10^7 and 0 <= a < 2^31
MulAdd(ds, m, a) == AddDigits(MulSmall(ds, m), NatToDigits(a))

\* the j-th group of four digits of b, counted from the right, as a number
Limb(b, j) ==
    DigitsToNat(SubSeq(b, IF Len(b) - 4 * j + 1 < 1 THEN 1 ELSE Len(b) - 4 * j + 1,
                       Len(b) - 4 * (j - 1)))

RECURSIVE MulLimbs(_, _, _, _)
\* a times the groups lo..hi of b, each at its place
MulLimbs(a, b, lo, hi) ==
    IF lo = hi THEN MulSmall(a, Limb(b, lo)) \o Zeros(4 * (lo - 1))
    ELSE AddDigits(MulLimbs(a, b, lo, (lo + hi) \div 2),
                   MulLimbs(a, b, (lo + hi) \div 2 + 1, hi))

\* a * b on digit sequences
MulDigits(a, b) ==
    IF b = <<>> THEN <<0>> ELSE StripLeading(MulLimbs(a, b, 1, (Len(b) + 3) \div 4))

(***************************************************************************)
(* bignumber.js, as operation.js uses it.                                  *)
(***************************************************************************)
BNError == [k |-> "err", s |-> 1, c |-> <<0>>, e |-> 0]

BNNaN == [k |-> "nan", s |-> 1, c |-> <<0>>, e |-> 0]

BNInfinity(sign) == [k |-> "inf", s |-> sign, c |-> <<0>>, e |-> 0]

\* the number sign * ds * 10^p, ds a digit sequence; p is the exponent of
\* the last digit of ds
BNMake(sign, ds, p) ==
    IF LeadingZeros(ds) = Len(ds)
    THEN [k |-> "num", s |-> sign, c |-> <<0>>, e |-> 0]
    ELSE [k |-> "num", s |-> sign,
          c |-> StripTrailing(StripLeading(ds)),
          e |-> p + Len(ds) - 1 - LeadingZeros(ds)]

\* the exponent part of a numeric literal: [+-]?\d+ ; ok is FALSE otherwise
ParseExponent(str) ==
    LET signed == Len(str) > 0 /\ str[1] \in {"+", "-"}
        ds     == IF signed THEN Tail(str) ELSE str
    IN  IF Len(ds) = 0 \/ ~AllDigitChars(ds)
        THEN [ok |-> FALSE, x |-> 0]
        ELSE [ok |-> TRUE,
              x  |-> IF signed /\ str[1] = "-"
                     THEN 0 - DigitsToNat(CharsToDigits(ds))
                     ELSE DigitsToNat(CharsToDigits(ds))]

\* the mantissa of a numeric literal: \d+(\.\d*)? | \.\d+
ParseMantissa(str) ==
    LET dot == IndexOf(str, ".")
        ip  == IF dot = 0 THEN str ELSE SubSeq(str, 1, dot - 1)
        fp  == IF dot = 0 THEN <<>> ELSE SubSeq(str, dot + 1, Len(str))
    IN  [ok |-> /\ AllDigitChars(ip)
                /\ AllDigitChars(fp)
                /\ \/ Len(ip) > 0
                   \/ dot # 0 /\ Len(fp) > 0,
         ip |-> ip, fp |-> fp]

\* new BigNumber(string): the value, or BNError when the constructor throws
BigNumberOfString(str) ==
    LET neg  == Len(str) > 0 /\ str[1] = "-"
        body == IF neg THEN Tail(str) ELSE str
        sign == IF neg THEN -1 ELSE 1
        epos == IF IndexOf(body, "e") # 0 THEN IndexOf(body, "e") ELSE IndexOf(body, "E")
        mstr == IF epos = 0 THEN body ELSE SubSeq(body, 1, epos - 1)
        xstr == IF epos = 0 THEN <<"0">> ELSE SubSeq(body, epos + 1, Len(body))
        m    == ParseMantissa(mstr)
        x    == ParseExponent(xstr)
    IN  IF str = <<"N","a","N">> THEN BNNaN
        ELSE IF body = <<"I","n","f","i","n","i","t","y">> THEN BNInfinity(sign)
        ELSE IF ~m.ok \/ ~x.ok THEN BNError
        ELSE BNMake(sign, CharsToDigits(m.ip \o m.fp), x.x - Len(m.fp))

\* new BigNumber(number) for an integer number
BigNumberOfInt(n) ==
    IF n < 0 THEN BNMake(-1, NatToDigits(0 - n), 0) ELSE BNMake(1, NatToDigits(n), 0)

BNisZero(x) == x.k = "num" /\ x.c = <<0>>

\* isNegative is the sign bit: true of -0 as well
BNisNegative(x) == x.k \in {"num", "inf"} /\ x.s < 0

BNisFinite(x) == x.k = "num"

BNisNaN(x) == x.k = "nan"

\* decimalPlaces(): null (here -1) for NaN and Infinity
BNdecimalPlaces(x) ==
    IF x.k # "num" THEN -1
    ELSE IF Len(x.c) - 1 - x.e > 0 THEN Len(x.c) - 1 - x.e ELSE 0

\* x.times(m) for a number 0 < m < 10^8
BNtimes(x, m) ==
    IF x.k # "num" THEN x
    ELSE BNMake(x.s, MulAdd(x.c, m, 0), x.e - Len(x.c) + 1)

\* -1, 0, 1 comparing the magnitudes of two finite BigNumbers
BNcmpMag(x, y) ==
    IF BNisZero(x) \/ BNisZero(y)
    THEN (IF BNisZero(x) /\ BNisZero(y) THEN 0 ELSE IF BNisZero(x) THEN -1 ELSE 1)
    ELSE IF x.e # y.e THEN (IF x.e < y.e THEN -1 ELSE 1)
    ELSE LET n  == IF Len(x.c) > Len(y.c) THEN Len(x.c) ELSE Len(y.c)
             xc == x.c \o Zeros(n - Len(x.c))
             yc == y.c \o Zeros(n - Len(y.c))
         IN  CmpDigits(xc, yc)

\* x.greaterThan(y)
BNgreaterThan(x, y) ==
    IF x.k \in {"nan", "err"} \/ y.k \in {"nan", "err"} THEN FALSE
    ELSE IF x.k = "inf" THEN x.s > 0 /\ ~(y.k = "inf" /\ y.s > 0)
    ELSE IF y.k = "inf" THEN y.s < 0
    ELSE IF BNisZero(x) /\ BNisZero(y) THEN FALSE
    ELSE IF x.s # y.s THEN x.s > y.s
    ELSE IF x.s > 0 THEN BNcmpMag(x, y) = 1
    ELSE BNcmpMag(x, y) = -1

\* the quotient digit of (10 * r + d) \div m for r < m <= MAX_INT32, found
\* without forming 10 * r: 10 * r + d >= k * m exactly when
\* r >= ceiling((k * m - d) / 10)
DivDigit(r, d, m) ==
    Cardinality({k \in 1..9 : r >= k * (m \div 10) + ((k * (m % 10) - d + 9) \div 10)})

\* the remainder 10 * r + d - q * m
DivRemainder(r, d, m, q) ==
    ((10 * (r - q * (m \div 10) - 9)) - (q * (m % 10) - d)) + 90

DivStepWith(r, d, m, q) == [q |-> <<q>>, r |-> DivRemainder(r, d, m, q)]

\* one step of long division by m: the next quotient digit and remainder
DivStep(r, d, m) == DivStepWith(r, d, m, DivDigit(r, d, m))

DivJoined(first, second) == [q |-> first.q \o second.q, r |-> second.r]

RECURSIVE DivSeq(_, _, _)
DivJoin(first, rest, m) == DivJoined(first, DivSeq(rest, first.r, m))

\* long division by m of the digits ds that follow a remainder r: the
\* quotient digits, one for each digit of ds, and the remainder left
DivSeq(ds, r, m) ==
    IF ds = <<>> THEN [q |-> <<>>, r |-> r]
    ELSE IF Len(ds) = 1 THEN DivStep(r, ds[1], m)
    ELSE DivJoin(DivSeq(SubSeq(ds, 1, Len(ds) \div 2), r, m),
                 SubSeq(ds, Len(ds) \div 2 + 1, Len(ds)), m)

\* the first last digits of ds followed by zeros
Dividend(ds, last) == IF last < 1 THEN <<>> ELSE SubSeq(ds \o Zeros(last), 1, last)

\* the digits kept, preceded by a 0 that takes the carry of rounding up
RoundedDigits(kept, up) ==
    IF up THEN Zeros(Len(kept) + 1 - Len(MulAdd(kept, 1, 1))) \o MulAdd(kept, 1, 1)
    ELSE <<0>> \o kept

\* the quotient of x whose digits up to position last (the rounding digit)
\* are q
BNrounded(x, q, last) ==
    IF Len(q) = last /\ last >= 1
    THEN BNMake(x.s, RoundedDigits(SubSeq(q, 1, last - 1), q[last] >= 5), x.e - last + 2)
    ELSE BNMake(x.s, <<0>> \o q, x.e - Len(q) + 1)

\* x.div(m) for a number 0 < m <= MAX_INT32: the quotient rounded half up
\* to DECIMAL_PLACES decimal places
BNdiv(x, m) ==
    IF x.k # "num" THEN x
    ELSE BNrounded(x, DivSeq(Dividend(x.c, x.e + DECIMAL_PLACES + 2), 0, m).q,
                   x.e + DECIMAL_PLACES + 2)

\* the decimal digits of an exponent for toString's exponential notation
ExponentChars(e) ==
    IF e < 0 THEN <<"e", "-">> \o DigitsToChars(NatToDigits(0 - e))
    ELSE <<"e", "+">> \o DigitsToChars(NatToDigits(e))

\* x.toString(): fixed notation, exponential at or beyond TO_EXP_NEG and
\* TO_EXP_POS
BNtoString(x) ==
    IF x.k = "nan" THEN <<"N","a","N">>
    ELSE IF x.k = "inf"
         THEN (IF x.s < 0 THEN <<"-">> ELSE <<>>) \o <<"I","n","f","i","n","i","t","y">>
    ELSE IF BNisZero(x) THEN <<"0">>
    ELSE LET cs   == DigitsToChars(x.c)
             n    == Len(cs)
             body ==
                 IF x.e <= TO_EXP_NEG \/ x.e >= TO_EXP_POS
                 THEN <<cs[1]>> \o (IF n > 1 THEN <<".">> \o SubSeq(cs, 2, n) ELSE <<>>)
                      \o ExponentChars(x.e)
                 ELSE IF x.e < 0
                 THEN <<"0", ".">> \o DigitsToChars(Zeros(0 - x.e - 1)) \o cs
                 ELSE IF n <= x.e + 1
                 THEN cs \o DigitsToChars(Zeros(x.e + 1 - n))
                 ELSE SubSeq(cs, 1, x.e + 1) \o <<".">> \o SubSeq(cs, x.e + 2, n)
         IN  (IF x.s < 0 THEN <<"-">> ELSE <<>>) \o body

(***************************************************************************)
(* js-xdr Hyper: a signed 64-bit integer, here its sign and decimal        *)
(* digits.                                                                 *)
(***************************************************************************)
\* 2^63 and 2^64
TwoTo63 == <<9,2,2,3,3,7,2,0,3,6,8,5,4,7,7,5,8,0,8>>

TwoTo64 == <<1,8,4,4,6,7,4,4,0,7,3,7,0,9,5,5,1,6,1,6>>

RECURSIVE Mod64(_)
\* ds modulo 2^64: 64-bit arithmetic wraps
Mod64(ds) ==
    IF CmpDigits(ds, TwoTo64) = -1 THEN ds
    ELSE IF CmpDigits(ds, TwoTo64 \o Zeros(Len(ds) - Len(TwoTo64))) # -1
    THEN Mod64(SubDigits(ds, TwoTo64 \o Zeros(Len(ds) - Len(TwoTo64))))
    ELSE Mod64(SubDigits(ds, TwoTo64 \o Zeros(Len(ds) - Len(TwoTo64) - 1)))

\* the signed 64-bit integer congruent to (-1)^neg * u, for u < 2^64
Signed64(neg, u) ==
    IF neg
    THEN IF CmpDigits(u, TwoTo63) # 1
         THEN [ok |-> TRUE, neg |-> u # <<0>>, mag |-> u]
         ELSE [ok |-> TRUE, neg |-> FALSE, mag |-> SubDigits(TwoTo64, u)]
    ELSE IF CmpDigits(u, TwoTo63) = -1
         THEN [ok |-> TRUE, neg |-> FALSE, mag |-> u]
         ELSE [ok |-> TRUE, neg |-> TRUE, mag |-> SubDigits(TwoTo64, u)]

\* Hyper.fromString(str): ok is FALSE when str is not -?\d+
HyperFromString(str) ==
    IF str # <<>> /\ str[1] = "-"
    THEN IF Len(str) = 1 \/ ~AllDigitChars(Tail(str))
         THEN [ok |-> FALSE, neg |-> FALSE, mag |-> <<0>>]
         ELSE Signed64(TRUE, Mod64(StripLeading(CharsToDigits(Tail(str)))))
    ELSE IF str = <<>> \/ ~AllDigitChars(str)
         THEN [ok |-> FALSE, neg |-> FALSE, mag |-> <<0>>]
         ELSE Signed64(FALSE, Mod64(StripLeading(CharsToDigits(str))))

\* hyper.toString()
HyperToString(h) == (IF h.neg THEN <<"-">> ELSE <<>>) \o DigitsToChars(h.mag)

(***************************************************************************)
(* Integers of unbounded size as [neg, mag]: the JavaScript numbers that   *)
(* the price path handles, which may leave the 32-bit range.               *)
(***************************************************************************)
MaxInt32Digits == NatToDigits(MAX_INT32)

\* the JavaScript number k
JSNumber(k) == [neg |-> k < 0, mag |-> NatToDigits(IF k < 0 THEN 0 - k ELSE k)]

JSNumberIsNegative(x) == x.neg /\ x.mag # <<0>>

\* the integer a digit sequence denotes, which must be at most MAX_INT32
DigitsToInt32(ds) == DigitsToNat(ds)

(***************************************************************************)
(* JavaScript values of the options records: undefined, strings, numbers   *)
(* and {n, d} objects, as [t, s, n, d].                                    *)
(***************************************************************************)
Undefined == [t |-> "undefined", s |-> <<>>, n |-> 0, d |-> 0]

Str(chars) == [t |-> "string", s |-> chars, n |-> 0, d |-> 0]

Num(k) == [t |-> "number", s |-> <<>>, n |-> k, d |-> 0]

Ratio(n, d) == [t |-> "object", s |-> <<>>, n |-> n, d |-> d]

\* new BigNumber(chars), a decimal object passed where a string is expected
BigNumberObject(chars) == [t |-> "object", s |-> chars, n |-> 0, d |-> 0]

\* lodash isUndefined, isString
isUndefined(v) == v.t = "undefined"

isString(v) == v.t = "string"

\* JavaScript truthiness, as in if (opts.limit), if (opts.source)
Truthy(v) ==
    CASE v.t = "undefined" -> FALSE
      [] v.t = "string"    -> Len(v.s) > 0
      [] v.t = "number"    -> v.n # 0
      [] OTHER             -> TRUE

(***************************************************************************)
(* Collaborators: account identifiers and assets.                          *)
(***************************************************************************)
\* the checksummed addresses of the model, in the order of their keys
Addresses == << <<"G","A">>, <<"G","B">> >>

\* Account.isValidAccountId
isValidAccountId(v) == isString(v) /\ \E i \in 1..Len(Addresses) : Addresses[i] = v.s

\* Keypair.fromAccountId(address).xdrAccountId(): the key, a number >= 1
xdrAccountId(v) == CHOOSE i \in 1..Len(Addresses) : Addresses[i] = v.s

\* encodeCheck("accountId", accountId.ed25519())
accountIdtoAddress(key) == Addresses[key]

NUL == "\\0"

\* lodash padEnd(code, width, '\0')
padEnd(code, width) ==
    IF Len(code) >= width THEN code ELSE code \o [i \in 1..(width - Len(code)) |-> NUL]

\* lodash trimEnd(code, '\0')
trimEnd(code) ==
    IF \A i \in 1..Len(code) : code[i] = NUL THEN <<>>
    ELSE SubSeq(code, 1, CHOOSE i \in 1..Len(code) :
                           code[i] # NUL /\ \A j \in (i + 1)..Len(code) : code[j] = NUL)

NoAsset == [t |-> "undefined", code |-> <<>>, issuer |-> Undefined]

NativeAsset == [t |-> "asset", code |-> <<"X","L","M">>, issuer |-> Undefined]

CreditAsset(code, issuer) == [t |-> "asset", code |-> code, issuer |-> Str(issuer)]

\* asset.toXdrObject()
toXdrObject(a) ==
    IF isUndefined(a.issuer)
    THEN [type |-> "native", assetCode |-> <<>>, issuer |-> 0]
    ELSE IF Len(a.code) <= 4
    THEN [type |-> "creditAlphanum4", assetCode |-> padEnd(a.code, 4),
          issuer |-> xdrAccountId(a.issuer)]
    ELSE [type |-> "creditAlphanum12", assetCode |-> padEnd(a.code, 12),
          issuer |-> xdrAccountId(a.issuer)]

\* Asset.fromOperation(xdrAsset)
fromOperation(x) ==
    IF x.type = "native" THEN NativeAsset
    ELSE CreditAsset(trimEnd(x.assetCode), accountIdtoAddress(x.issuer))

(***************************************************************************)
(* Amounts.                                                                *)
(***************************************************************************)
\* isValidAmount without the comparison with MAX_INT64
isValidAmountUnbounded(value, allowZero) ==
    IF ~isString(value) THEN FALSE
    ELSE IF BigNumberOfString(value.s).k = "err" THEN FALSE
    ELSE IF ~allowZero /\ BNisZero(BigNumberOfString(value.s)) THEN FALSE
    ELSE IF BNisNegative(BigNumberOfString(value.s)) THEN FALSE
    ELSE IF BNdecimalPlaces(BigNumberOfString(value.s)) > 7 THEN FALSE
    ELSE IF ~BNisFinite(BigNumberOfString(value.s)) THEN FALSE
    ELSE IF BNisNaN(BigNumberOfString(value.s)) THEN FALSE
    ELSE TRUE

\* Operation.isValidAmount(value, allowZero)
\* isValidAmount that reads a number or a decimal object as its decimal string
\* the decimal string a number or a decimal object would be read as
CoercedChars(value) ==
    IF value.t = "number" THEN DigitsToChars(NatToDigits(value.n)) ELSE value.s

isValidAmountCoercing(value, allowZero) ==
    IF isUndefined(value) THEN FALSE
    ELSE IF BigNumberOfString(CoercedChars(value)).k = "err" THEN FALSE
    ELSE IF ~allowZero /\ BNisZero(BigNumberOfString(CoercedChars(value))) THEN FALSE
    ELSE IF BNisNegative(BigNumberOfString(CoercedChars(value))) THEN FALSE
    ELSE IF BNgreaterThan(BNtimes(BigNumberOfString(CoercedChars(value)), ONE),
                          BigNumberOfString(MAX_INT64)) THEN FALSE
    ELSE IF BNdecimalPlaces(BigNumberOfString(CoercedChars(value))) > 7 THEN FALSE
    ELSE IF ~BNisFinite(BigNumberOfString(CoercedChars(value))) THEN FALSE
    ELSE IF BNisNaN(BigNumberOfString(CoercedChars(value))) THEN FALSE
    ELSE TRUE

isValidAmount(value, allowZero) ==
    IF ~isString(value) THEN FALSE
    ELSE LET amount == BigNumberOfString(value.s)
         IN  IF amount.k = "err" THEN FALSE                       \* catch (e)
             ELSE IF ~allowZero /\ BNisZero(amount) THEN FALSE    \* == 0
             ELSE IF BNisNegative(amount) THEN FALSE              \* < 0
             ELSE IF BNgreaterThan(BNtimes(amount, ONE), BigNumberOfString(MAX_INT64))
                  THEN FALSE                                      \* > Max value
             ELSE IF BNdecimalPlaces(amount) > 7 THEN FALSE       \* Decimal places
             ELSE IF ~BNisFinite(amount) THEN FALSE               \* Infinity
             ELSE IF BNisNaN(amount) THEN FALSE                   \* NaN
             ELSE TRUE

\* _toXDRAmount with a scale of six decimal places
_toXDRAmountMicro(value) ==
    HyperFromString(BNtoString(BNtimes(BigNumberOfString(value.s), ONE \div 10)))

\* Operation._toXDRAmount(value): a Hyper, ok = FALSE when fromString throws
_toXDRAmount(value) ==
    LET amount == BNtimes(BigNumberOfString(value.s), ONE)
    IN  HyperFromString(BNtoString(amount))

\* Operation._fromXDRAmount(value): the characters of the decimal string
_fromXDRAmount(value) ==
    BNtoString(BNdiv(BigNumberOfString(HyperToString(value)), ONE))

\* the Hyper of MAX_INT64, changeTrust's default limit
MaxLimit == HyperFromString(BNtoString(BigNumberOfString(MAX_INT64)))

(***************************************************************************)
(* Prices.                                                                 *)
(***************************************************************************)
\* integer and fractional digits of a finite BigNumber's magnitude
FracParts(x) ==
    LET n == Len(x.c)
    IN  IF x.e < 0 THEN [ip |-> <<0>>, fp |-> Zeros(0 - x.e - 1) \o x.c]
        ELSE IF n <= x.e + 1 THEN [ip |-> x.c \o Zeros(x.e + 1 - n), fp |-> <<>>]
        ELSE [ip |-> SubSeq(x.c, 1, x.e + 1), fp |-> SubSeq(x.c, x.e + 2, n)]

\* the recurrence term * cur + prev
Recurrence(term, cur, prev) == AddDigits(MulDigits(NatToDigits(term), cur), prev)

RECURSIVE Convergents(_, _, _, _, _, _)
\* the step of Convergents that has computed the next convergent (h, k)
ConvergentsStep(f, q, hc, kc, h, k) ==
    IF CmpDigits(h, MaxInt32Digits) = 1 \/ CmpDigits(k, MaxInt32Digits) = 1
    THEN [h |-> hc, k |-> kc]
    ELSE Convergents(q % f, f, hc, kc, h, k)

\* continued-fraction expansion of a number whose fractional remainder is
\* f / q: (hp, kp) and (hc, kc) are the previous and the current
\* convergent; stops when the remainder is 0 or when the next convergent
\* would leave the 32-bit range, returning the last valid one
Convergents(f, q, hp, kp, hc, kc) ==
    IF f = 0 THEN [h |-> hc, k |-> kc]
    ELSE ConvergentsStep(f, q, hc, kc, Recurrence(q \div f, hc, hp),
                         Recurrence(q \div f, kc, kp))

RECURSIVE ConvergentsUnguarded(_, _, _, _, _, _)
ConvergentsUnguarded(f, q, hp, kp, hc, kc) ==
    IF CmpDigits(hc, <<>>) = 0 \/ CmpDigits(kc, <<>>) = 0 \/ f = 0 THEN [h |-> hc, k |-> kc]
    ELSE ConvergentsUnguarded(q % f, f, hc, kc, Recurrence(q \div f, hc, hp),
                              Recurrence(q \div f, kc, kp))

\* what best_r returns for the last convergent r: ok = FALSE when it throws
Approximation(r) ==
    [ok |-> r.h # <<0>> /\ r.k # <<0>>,
     n  |-> [neg |-> FALSE, mag |-> r.h],
     d  |-> [neg |-> FALSE, mag |-> r.k]]

NoApproximation == [ok |-> FALSE, n |-> JSNumber(0), d |-> JSNumber(0)]

\* the expansion of a number with integer digits ip and fractional digits fp
Expand(ip, fp) ==
    IF CmpDigits(ip, MaxInt32Digits) = 1
    THEN [h |-> <<1>>, k |-> <<0>>]
    ELSE Convergents(DigitsToNat(fp), Pow10(Len(fp)), <<1>>, <<0>>, ip, <<1>>)

\* best_r without the 32-bit guard on the recurrence
best_r_unguarded(x) ==
    IF x.k # "num" \/ BNisNegative(x) \/ BNisZero(x) THEN NoApproximation
    ELSE Approximation(ConvergentsUnguarded(DigitsToNat(FracParts(x).fp),
                                            Pow10(Len(FracParts(x).fp)), <<1>>, <<0>>,
                                            StripLeading(FracParts(x).ip), <<1>>))

\* best_r(number), util/continued_fraction.  The expansion runs until the
\* convergent is exact or the next one would overflow.
best_r(x) ==
    IF x.k # "num" \/ BNisNegative(x) \/ BNisZero(x) THEN NoApproximation
    ELSE Approximation(Expand(StripLeading(FracParts(x).ip), FracParts(x).fp))

\* new BigNumber(price) for the values a price option can hold
BigNumberOf(v) ==
    CASE v.t = "string" -> BigNumberOfString(v.s)
      [] v.t = "number" -> BigNumberOfInt(v.n)
      [] OTHER          -> BNError

\* the test price.n && price.d
HasRatio(price) == price.t = "object" /\ price.n # 0 /\ price.d # 0

\* the xdr.Price of an approximation of the BigNumber x
ApproximatedPrice(x, approx) ==
    IF x.k = "err"
    THEN [err |-> "new BigNumber() not a number", n |-> JSNumber(0), d |-> JSNumber(0),
          best |-> FALSE]
    ELSE IF ~approx.ok
    THEN [err |-> "Couldn't find approximation", n |-> JSNumber(0), d |-> JSNumber(0),
          best |-> TRUE]
    ELSE [err |-> "", n |-> approx.n, d |-> approx.d, best |-> TRUE]

\* PriceObject with the two terms of an explicit pair exchanged
PriceObjectSwapped(price) ==
    IF HasRatio(price)
    THEN [err |-> "", n |-> JSNumber(price.d), d |-> JSNumber(price.n), best |-> FALSE]
    ELSE ApproximatedPrice(BigNumberOf(price), best_r(BigNumberOf(price)))

\* the xdr.Price object _toXDRPrice builds, before its positivity check:
\* n and d, err when a call throws, best when best_r was called
PriceObject(price) ==
    IF HasRatio(price)
    THEN [err |-> "", n |-> JSNumber(price.n), d |-> JSNumber(price.d), best |-> FALSE]
    ELSE ApproximatedPrice(BigNumberOf(price), best_r(BigNumberOf(price)))

\* the check xdrObject.n() < 0 || xdrObject.d() < 0
CheckPositive(xdrObject) ==
    IF xdrObject.err # "" THEN xdrObject
    ELSE IF JSNumberIsNegative(xdrObject.n) \/ JSNumberIsNegative(xdrObject.d)
    THEN [xdrObject EXCEPT !.err = "price must be positive"]
    ELSE xdrObject

\* _toXDRPrice without the positivity check
_toXDRPriceUnchecked(price) == PriceObject(price)

\* Operation._toXDRPrice(price)
_toXDRPrice(price) == CheckPositive(PriceObject(price))

\* n.div(d) for JavaScript integers n and d within the 32-bit range
BNdivNumber(n, d) ==
    IF d.mag = <<0>>
    THEN (IF n.mag = <<0>> THEN BNNaN ELSE BNInfinity(IF n.neg = d.neg THEN 1 ELSE -1))
    ELSE BNdiv(BNMake(IF n.neg = d.neg THEN 1 ELSE -1, n.mag, 0), DigitsToInt32(d.mag))

\* Operation._fromXDRPrice(price)
_fromXDRPrice(price) == BNtoString(BNdivNumber(price.n, price.d))

(***************************************************************************)
(* The constructors.  Each returns [err, op, opts, best]: the message of   *)
(* the error thrown ("" when none), the xdr.Operation built, the caller's  *)
(* options record as the call leaves it, and whether best_r was called.    *)
(***************************************************************************)
\* the value of op when the constructor threw: nothing is returned
NoOperation ==
    [sourceAccount |-> 0, body |-> [switch |-> "none", value |-> [none |-> TRUE]]]

Throw(msg, o, best) == [err |-> msg, op |-> NoOperation, opts |-> o, best |-> best]

\* Operation.setSourceAccount(opAttributes, opts): the sourceAccount set
\* (0 when none), err when it throws
setSourceAccount(o) ==
    IF Truthy(o.source)
    THEN IF ~isValidAccountId(o.source)
         THEN [err |-> "Source address is invalid", sourceAccount |-> 0]
         ELSE [err |-> "", sourceAccount |-> xdrAccountId(o.source)]
    ELSE [err |-> "", sourceAccount |-> 0]

\* the common tail of every constructor: setSourceAccount, then
\* new xdr.Operation(opAttributes)
NewOperation(switch, attributes, o, best) ==
    IF setSourceAccount(o).err # "" THEN Throw(setSourceAccount(o).err, o, best)
    ELSE [err  |-> "",
          op   |-> [sourceAccount |-> setSourceAccount(o).sourceAccount,
                    body |-> [switch |-> switch, value |-> attributes]],
          opts |-> o, best |-> best]

\* Operation.createAccount(opts)
createAccount(o) ==
    IF ~isValidAccountId(o.destination) THEN Throw("destination is invalid", o, FALSE)
    ELSE IF ~isValidAmount(o.startingBalance, FALSE)
    THEN Throw("startingBalance argument must be of type String and represent a positive number", o, FALSE)
    ELSE NewOperation("createAccount",
                      [destination     |-> xdrAccountId(o.destination),
                       startingBalance |-> _toXDRAmount(o.startingBalance)],
                      o, FALSE)

\* Operation.payment(opts)
payment(o) ==
    IF ~isValidAccountId(o.destination) THEN Throw("destination is invalid", o, FALSE)
    ELSE IF o.asset.t = "undefined"
    THEN Throw("Must provide an asset for a payment operation", o, FALSE)
    ELSE IF ~isValidAmount(o.amount, FALSE)
    THEN Throw("amount argument must be of type String and represent a positive number", o, FALSE)
    ELSE NewOperation("payment",
                      [destination |-> xdrAccountId(o.destination),
                       asset       |-> toXdrObject(o.asset),
                       amount      |-> _toXDRAmount(o.amount)],
                      o, FALSE)

\* Operation.pathPayment(opts)
pathPayment(o) ==
    IF o.sendAsset.t = "undefined" THEN Throw("Must specify a send asset", o, FALSE)
    ELSE IF ~isValidAmount(o.sendMax, FALSE)
    THEN Throw("sendMax argument must be of type String and represent a positive number", o, FALSE)
    ELSE IF ~isValidAccountId(o.destination) THEN Throw("destination is invalid", o, FALSE)
    ELSE IF o.destAsset.t = "undefined"
    THEN Throw("Must provide a destAsset for a payment operation", o, FALSE)
    ELSE IF ~isValidAmount(o.destAmount, FALSE)
    THEN Throw("destAmount argument must be of type String and represent a positive number", o, FALSE)
    ELSE NewOperation("pathPayment",
                      [sendAsset   |-> toXdrObject(o.sendAsset),
                       sendMax     |-> _toXDRAmount(o.sendMax),
                       destination |-> xdrAccountId(o.destination),
                       destAsset   |-> toXdrObject(o.destAsset),
                       destAmount  |-> _toXDRAmount(o.destAmount),
                       path        |-> [i \in 1..Len(o.path) |-> toXdrObject(o.path[i])]],
                      o, FALSE)

\* changeTrust whose limit test is if (limit is a non-zero amount)
changeTrustZeroIsDefault(o) ==
    IF o.asset.t = "undefined" THEN Throw("TypeError: opts.asset is undefined", o, FALSE)
    ELSE IF ~isUndefined(o.limit) /\ ~isValidAmount(o.limit, TRUE)
    THEN Throw("limit argument must be of type String and represent a number", o, FALSE)
    ELSE NewOperation("changeTrust",
                      [line  |-> toXdrObject(o.asset),
                       limit |-> IF Truthy(o.limit) /\ ~BNisZero(BigNumberOfString(o.limit.s))
                                 THEN _toXDRAmount(o.limit) ELSE MaxLimit],
                      o, FALSE)

\* Operation.changeTrust(opts)
changeTrust(o) ==
    IF o.asset.t = "undefined" THEN Throw("TypeError: opts.asset is undefined", o, FALSE)
    ELSE IF ~isUndefined(o.limit) /\ ~isValidAmount(o.limit, TRUE)
    THEN Throw("limit argument must be of type String and represent a number", o, FALSE)
    ELSE NewOperation("changeTrust",
                      [line  |-> toXdrObject(o.asset),
                       limit |-> IF Truthy(o.limit) THEN _toXDRAmount(o.limit) ELSE MaxLimit],
                      o, FALSE)

\* AllowTrustAsset with the 4-byte form for fewer than 4 characters only
AllowTrustAssetBelow4(code) ==
    IF Len(code) < 4
    THEN [type |-> "assetTypeCreditAlphanum4", value |-> padEnd(code, 4)]
    ELSE [type |-> "assetTypeCreditAlphanum12", value |-> padEnd(code, 12)]

\* the AllowTrustOpAsset of an asset code of at most 12 characters
AllowTrustAsset(code) ==
    IF Len(code) <= 4
    THEN [type |-> "assetTypeCreditAlphanum4", value |-> padEnd(code, 4)]
    ELSE [type |-> "assetTypeCreditAlphanum12", value |-> padEnd(code, 12)]

\* Operation.allowTrust(opts)
allowTrust(o) ==
    IF ~isValidAccountId(o.trustor) THEN Throw("trustor is invalid", o, FALSE)
    ELSE IF Len(o.assetCode) > 12 THEN Throw("Asset code must be 12 characters at max.", o, FALSE)
    ELSE NewOperation("allowTrust",
                      [trustor   |-> xdrAccountId(o.trustor),
                       asset     |-> AllowTrustAsset(o.assetCode),
                       authorize |-> o.authorize],
                      o, FALSE)

\* OutOfRange with >= 255 for > 255
OutOfRangeFrom255(v) == v.t = "number" /\ (v.n < 0 \/ v.n >= 255)

\* the test opts.x < 0 || opts.x > 255 on a number or undefined
OutOfRange(v) == v.t = "number" /\ (v.n < 0 \/ v.n > 255)

NoSigner == [t |-> "undefined", address |-> Undefined, weight |-> Undefined]

Signer(address, weight) == [t |-> "object", address |-> address, weight |-> weight]

\* Operation.setOptions(opts)
setOptions(o) ==
    IF Truthy(o.inflationDest) /\ ~isValidAccountId(o.inflationDest)
    THEN Throw("inflationDest is invalid", o, FALSE)
    ELSE IF ~isUndefined(o.masterWeight) /\ OutOfRange(o.masterWeight)
    THEN Throw("masterWeight value must be between 0 and 255", o, FALSE)
    ELSE IF ~isUndefined(o.lowThreshold) /\ OutOfRange(o.lowThreshold)
    THEN Throw("lowThreshold value must be between 0 and 255", o, FALSE)
    ELSE IF ~isUndefined(o.medThreshold) /\ OutOfRange(o.medThreshold)
    THEN Throw("medThreshold value must be between 0 and 255", o, FALSE)
    ELSE IF ~isUndefined(o.highThreshold) /\ OutOfRange(o.highThreshold)
    THEN Throw("highThreshold value must be between 0 and 255", o, FALSE)
    ELSE IF ~isUndefined(o.homeDomain) /\ ~isString(o.homeDomain)
    THEN Throw("homeDomain argument must be of type String", o, FALSE)
    ELSE IF o.signer.t # "undefined" /\ ~isValidAccountId(o.signer.address)
    THEN Throw("signer.address is invalid", o, FALSE)
    ELSE IF o.signer.t # "undefined" /\ OutOfRange(o.signer.weight)
    THEN Throw("signer.weight value must be between 0 and 255", o, FALSE)
    ELSE NewOperation("setOption",
                      [inflationDest |-> IF Truthy(o.inflationDest)
                                         THEN xdrAccountId(o.inflationDest) ELSE 0,
                       clearFlags    |-> o.clearFlags,
                       setFlags      |-> o.setFlags,
                       masterWeight  |-> o.masterWeight,
                       lowThreshold  |-> o.lowThreshold,
                       medThreshold  |-> o.medThreshold,
                       highThreshold |-> o.highThreshold,
                       homeDomain    |-> o.homeDomain,
                       signer        |-> IF o.signer.t # "undefined"
                                         THEN [present |-> TRUE,
                                               pubKey  |-> xdrAccountId(o.signer.address),
                                               weight  |-> o.signer.weight]
                                         ELSE [present |-> FALSE, pubKey |-> 0,
                                               weight  |-> Undefined]],
                      o, FALSE)

\* value.toString() of a number or a string
toStringOf(v) ==
    IF v.t = "string" THEN v.s
    ELSE (IF v.n < 0 THEN <<"-">> ELSE <<>>)
         \o DigitsToChars(NatToDigits(IF v.n < 0 THEN 0 - v.n ELSE v.n))

\* UnsignedHyper.fromString(str): ok is FALSE when str is not \d+
UnsignedHyperFromString(str) ==
    IF Len(str) = 0 \/ ~AllDigitChars(str)
    THEN [ok |-> FALSE, neg |-> FALSE, mag |-> <<0>>]
    ELSE [ok |-> TRUE, neg |-> FALSE, mag |-> Mod64(StripLeading(CharsToDigits(str)))]

\* manageOffer from the assignment of opts.offerId on: o2 is opts with
\* offerId set, id the UnsignedHyper of it
manageOfferWithId(o, price, o2, id) ==
    IF price.err # "" THEN Throw(price.err, o, price.best)
    ELSE IF ~id.ok THEN Throw("Invalid hyper string", o2, price.best)
    ELSE NewOperation("manageOffer",
                      [selling |-> toXdrObject(o.selling),
                       buying  |-> toXdrObject(o.buying),
                       amount  |-> _toXDRAmount(o.amount),
                       price   |-> [n |-> price.n, d |-> price.d],
                       offerId |-> id],
                      o2, price.best)

\* opts.offerId = opts.offerId.toString(), or '0' when undefined
OfferIdString(o) ==
    IF ~isUndefined(o.offerId) THEN Str(toStringOf(o.offerId)) ELSE Str(<<"0">>)

\* Operation.manageOffer(opts)
manageOffer(o) ==
    IF ~isValidAmount(o.amount, TRUE)
    THEN Throw("amount argument must be of type String and represent a positive number or zero", o, FALSE)
    ELSE IF isUndefined(o.price) THEN Throw("price argument is required", o, FALSE)
    ELSE manageOfferWithId(o, _toXDRPrice(o.price), [o EXCEPT !.offerId = OfferIdString(o)],
                           UnsignedHyperFromString(OfferIdString(o).s))

\* createPassiveOffer from the price on
createPassiveOfferPriced(o, price) ==
    IF price.err # "" THEN Throw(price.err, o, price.best)
    ELSE NewOperation("createPassiveOffer",
                      [selling |-> toXdrObject(o.selling),
                       buying  |-> toXdrObject(o.buying),
                       amount  |-> _toXDRAmount(o.amount),
                       price   |-> [n |-> price.n, d |-> price.d]],
                      o, price.best)

\* Operation.createPassiveOffer(opts)
createPassiveOffer(o) ==
    IF ~isValidAmount(o.amount, FALSE)
    THEN Throw("amount argument must be of type String and represent a positive number", o, FALSE)
    ELSE IF isUndefined(o.price) THEN Throw("price argument is required", o, FALSE)
    ELSE createPassiveOfferPriced(o, _toXDRPrice(o.price))

\* Operation.accountMerge(opts)
accountMerge(o) ==
    IF ~isValidAccountId(o.destination) THEN Throw("destination is invalid", o, FALSE)
    ELSE NewOperation("accountMerge", [destination |-> xdrAccountId(o.destination)], o, FALSE)

\* Operation.inflation(opts)
inflation(o) == NewOperation("inflation", [none |-> TRUE], o, FALSE)

(***************************************************************************)
(* Operation.operationToObject(operation): [err, result].                  *)
(***************************************************************************)
DecodedBody(operation) ==
    LET attrs == operation.body.value
        name  == operation.body.switch
    IN  CASE name = "createAccount" ->
               [type            |-> "createAccount",
                destination     |-> accountIdtoAddress(attrs.destination),
                startingBalance |-> _fromXDRAmount(attrs.startingBalance)]
          [] name = "payment" ->
               [type        |-> "payment",
                destination |-> accountIdtoAddress(attrs.destination),
                asset       |-> fromOperation(attrs.asset),
                amount      |-> _fromXDRAmount(attrs.amount)]
          [] name = "pathPayment" ->
               [type        |-> "pathPayment",
                sendAsset   |-> fromOperation(attrs.sendAsset),
                sendMax     |-> _fromXDRAmount(attrs.sendMax),
                destination |-> accountIdtoAddress(attrs.destination),
                destAsset   |-> fromOperation(attrs.destAsset),
                destAmount  |-> _fromXDRAmount(attrs.destAmount),
                path        |-> [i \in 1..Len(attrs.path) |-> fromOperation(attrs.path[i])]]
          [] name = "changeTrust" ->
               [type  |-> "changeTrust",
                line  |-> fromOperation(attrs.line),
                limit |-> _fromXDRAmount(attrs.limit)]
          [] name = "allowTrust" ->
               [type      |-> "allowTrust",
                trustor   |-> accountIdtoAddress(attrs.trustor),
                assetCode |-> trimEnd(attrs.asset.value),
                authorize |-> attrs.authorize]
          [] name = "setOption" ->
               LET base == [type          |-> "setOptions",
                            clearFlags    |-> attrs.clearFlags,
                            setFlags      |-> attrs.setFlags,
                            masterWeight  |-> attrs.masterWeight,
                            lowThreshold  |-> attrs.lowThreshold,
                            medThreshold  |-> attrs.medThreshold,
                            highThreshold |-> attrs.highThreshold,
                            homeDomain    |-> attrs.homeDomain]
                   dest == IF attrs.inflationDest # 0
                           THEN ("inflationDest" :> accountIdtoAddress(attrs.inflationDest)) @@ base
                           ELSE base
               IN  IF attrs.signer.present
                   THEN ("signer" :> [address |-> accountIdtoAddress(attrs.signer.pubKey),
                                      weight  |-> attrs.signer.weight]) @@ dest
                   ELSE dest
          [] name = "manageOffer" ->
               [type    |-> "manageOffer",
                selling |-> fromOperation(attrs.selling),
                buying  |-> fromOperation(attrs.buying),
                amount  |-> _fromXDRAmount(attrs.amount),
                price   |-> _fromXDRPrice(attrs.price),
                offerId |-> HyperToString(attrs.offerId)]
          [] name = "createPassiveOffer" ->
               [type    |-> "createPassiveOffer",
                selling |-> fromOperation(attrs.selling),
                buying  |-> fromOperation(attrs.buying),
                amount  |-> _fromXDRAmount(attrs.amount),
                price   |-> _fromXDRPrice(attrs.price)]
          [] name = "accountMerge" ->
               [type        |-> "accountMerge",
                destination |-> accountIdtoAddress(attrs.destination)]
          [] OTHER -> [type |-> "inflation"]

KnownSwitches ==
    {"createAccount", "payment", "pathPayment", "changeTrust", "allowTrust", "setOption",
     "manageOffer", "createPassiveOffer", "accountMerge", "inflation"}

NoResult == [type |-> "none"]

\* result.source = accountIdtoAddress(operation.sourceAccount()), when set
WithSource(operation, body) ==
    IF operation.sourceAccount # 0
    THEN ("source" :> accountIdtoAddress(operation.sourceAccount)) @@ body
    ELSE body

\* operationToObject whose default case returns what result holds by then
operationToObjectLenient(operation) ==
    IF operation.body.switch \notin KnownSwitches
    THEN [err |-> "", result |-> WithSource(operation, NoResult)]
    ELSE [err |-> "", result |-> WithSource(operation, DecodedBody(operation))]

\* result is local: the default case throws and nothing of it is returned
operationToObject(operation) ==
    IF operation.body.switch \notin KnownSwitches
    THEN [err |-> "Unknown operation", result |-> NoResult]
    ELSE [err |-> "", result |-> WithSource(operation, DecodedBody(operation))]

(***************************************************************************)
(* The arguments the model calls the program with.                         *)
(***************************************************************************)
\* the longest amount string enumerated exhaustively
MaxLen == 3

\* explicit price ratios {n, d} take n and d from -1..MaxRatioTerm and
\* MAX_INT32
MaxRatioTerm == 3

AmountAlphabet == {"0", "1", ".", "-", "x"}

ShortStrings == UNION {[1..n -> AmountAlphabet] : n \in 0..MaxLen}

\* boundary amounts: 7 and 8 decimals, the int64 ceiling and one unit
\* above it, non-finite values, exponent notation
SpecialAmounts ==
    {<<"1","0",".","1","2","3","4","5","6","7">>,
     <<"1","0",".","1","2","3","4","5","6","7","8">>,
     <<"9","2","2","3","3","7","2","0","3","6","8","5",".","4","7","7","5","8","0","7">>,
     <<"9","2","2","3","3","7","2","0","3","6","8","5",".","4","7","7","5","8","0","8">>,
     <<"9","2","2","3","3","7","2","0","3","6","8","5",".","4","7","7","5","8","0","7","0">>,
     <<"9","2","2","3","3","7","2","0","3","6","8","6">>,
     <<"1",".","0","0","0","0","0","0","0","0">>,
     <<"0",".","0","0","0","0","0","0","1">>,
     <<"0",".","0","0","0","0","0","0","0","1">>,
     <<"I","n","f","i","n","i","t","y">>,
     <<"-","I","n","f","i","n","i","t","y">>,
     <<"N","a","N">>,
     <<"1","e","-","7">>,
     <<"1","e","-","8">>,
     <<"1","e","3">>}

AmountValues ==
    {Str(a) : a \in ShortStrings \cup SpecialAmounts}
    \cup {Undefined, Num(1), BigNumberObject(<<"1">>)}

CoreAmounts ==
    {Str(a) : a \in {<<"1">>,
                     <<"0">>,
                     <<"-","1">>,
                     <<"-","0">>,
                     <<"0",".","0","0","0","0","0","0","1">>,
                     <<"1","0",".","1","2","3","4","5","6","7">>,
                     <<"1","0",".","1","2","3","4","5","6","7","8">>,
                     <<"9","2","2","3","3","7","2","0","3","6","8","5",".","4","7","7","5","8","0","7">>,
                     <<"9","2","2","3","3","7","2","0","3","6","8","5",".","4","7","7","5","8","0","8">>,
                     <<"a","b","c">>}}
    \cup {Undefined, Num(1), BigNumberObject(<<"1">>)}

GA == Addresses[1]

GB == Addresses[2]

BadAddress == <<"b","a","d">>

DestinationValues == {Str(GA), Str(BadAddress)}

SourceValues == {Undefined, Str(GB), Str(BadAddress), Str(<<>>)}

Assets == {NativeAsset, CreditAsset(<<"U","S","D">>, GA), CreditAsset(<<"L","O","N","G","E","R">>, GB)}

RatioTerms == (-1..MaxRatioTerm) \cup {MAX_INT32}

DecimalPrices ==
    {<<"0",".","5">>,
     <<"0">>,
     <<"-","0",".","5">>,
     <<"1","5","0","0","0","0","0","0","0","0",".","5">>,
     <<"3","0","0","0","0","0","0","0","0","0">>,
     <<"0",".","3","3","3">>,
     <<"a","b","c">>,
     <<"2","1","4","7","4","8","3","6","4","7">>,
     <<"2","1","4","7","4","8","3","6","4","7",".","5">>,
     <<"0",".","0","0","0","0","0","0","0","0","1">>,
     <<"3",".","1","4","1","5","9","2","6","5">>,
     <<"1","e","-","7">>}

PriceValues ==
    {Ratio(n, d) : n \in RatioTerms, d \in RatioTerms}
    \cup {Str(p) : p \in DecimalPrices} \cup {Num(2), Undefined}

OfferIdValues == {Undefined, Num(0), Num(7), Num(-1), Str(<<"1","2">>), Str(<<"x">>)}

WeightValues == {Undefined, Num(-1), Num(0), Num(255), Num(256)}

AssetCodes ==
    {<<>>, <<"U","S","D">>, <<"U","S","D","C">>, <<"U","S","D","C","X">>,
     <<"A","B","C","D","E","F","G","H","I","J","K","L">>,
     <<"A","B","C","D","E","F","G","H","I","J","K","L","M">>}

CreateAccountOpts ==
    [destination : DestinationValues, startingBalance : AmountValues, source : SourceValues]

PaymentOpts ==
    [destination : DestinationValues, asset : Assets \cup {NoAsset}, amount : CoreAmounts,
     source : {Undefined, Str(GB)}]

PathPaymentOpts ==
    [sendAsset : {NativeAsset, NoAsset}, sendMax : CoreAmounts,
     destination : DestinationValues, destAsset : {CreditAsset(<<"U","S","D">>, GA), NoAsset},
     destAmount : CoreAmounts,
     path : {<<>>, <<NativeAsset, CreditAsset(<<"U","S","D">>, GA)>>},
     source : {Undefined}]

ChangeTrustOpts ==
    [asset : {CreditAsset(<<"U","S","D">>, GA), NoAsset}, limit : AmountValues,
     source : {Undefined, Str(GB)}]

AllowTrustOpts ==
    [trustor : DestinationValues, assetCode : AssetCodes, authorize : BOOLEAN,
     source : SourceValues]

SetOptionsOpts ==
    [inflationDest : {Undefined, Str(GA), Str(BadAddress)},
     clearFlags : {Undefined, Num(1)}, setFlags : {Undefined},
     masterWeight : WeightValues, lowThreshold : WeightValues,
     medThreshold : {Undefined, Num(255), Num(256)},
     highThreshold : {Undefined, Num(-1), Num(0)},
     homeDomain : {Undefined, Str(<<"a",".","b">>), Num(1)},
     signer : {NoSigner} \cup {Signer(Str(GA), w) : w \in WeightValues}
              \cup {Signer(Str(BadAddress), Num(1))},
     source : {Undefined, Str(BadAddress)}]

ManageOfferOpts ==
    [selling : {NativeAsset}, buying : {CreditAsset(<<"U","S","D">>, GA)},
     amount : CoreAmounts, price : PriceValues, offerId : OfferIdValues,
     source : {Undefined, Str(BadAddress)}]

CreatePassiveOfferOpts ==
    [selling : {NativeAsset}, buying : {CreditAsset(<<"U","S","D">>, GA)},
     amount : CoreAmounts, price : PriceValues, source : {Undefined, Str(GB)}]

AccountMergeOpts == [destination : DestinationValues, source : SourceValues]

InflationOpts == [source : SourceValues]

\* variant tags of the ledger's later operations, which the switch of
\* operationToObject has no case for
ForeignSwitches == {"manageData", "bumpSequence"}

\* xdr.Operation values that no constructor of this class builds
ForeignOperations ==
    [sourceAccount : {0, xdrAccountId(Str(GB))},
     body : [switch : ForeignSwitches, value : {[none |-> TRUE]}]]

(***************************************************************************)
(* The state machine: a caller that calls one constructor, or one of the   *)
(* public helpers, and decodes what a constructor returned.                *)
(***************************************************************************)
NoOpts == [none |-> TRUE]

Init ==
    /\ pc = "idle"
    /\ fn = "none"
    /\ opts0 = NoOpts
    /\ opts = NoOpts
    /\ op = NoOperation
    /\ err = ""
    /\ result = NoResult
    /\ approximated = FALSE

\* constructor name, called with the options record o, returned or threw r
Returned(name, o, r) ==
    /\ pc' = IF r.err = "" THEN "built" ELSE "failed"
    /\ fn' = name
    /\ opts0' = o
    /\ opts' = r.opts
    /\ op' = r.op
    /\ err' = r.err
    /\ approximated' = r.best

CreateAccount ==
    /\ pc = "idle"
    /\ \E o \in CreateAccountOpts : Returned("createAccount", o, createAccount(o))
    /\ UNCHANGED result

Payment ==
    /\ pc = "idle"
    /\ \E o \in PaymentOpts : Returned("payment", o, payment(o))
    /\ UNCHANGED result

PathPayment ==
    /\ pc = "idle"
    /\ \E o \in PathPaymentOpts : Returned("pathPayment", o, pathPayment(o))
    /\ UNCHANGED result

ChangeTrust ==
    /\ pc = "idle"
    /\ \E o \in ChangeTrustOpts : Returned("changeTrust", o, changeTrust(o))
    /\ UNCHANGED result

AllowTrust ==
    /\ pc = "idle"
    /\ \E o \in AllowTrustOpts : Returned("allowTrust", o, allowTrust(o))
    /\ UNCHANGED result

SetOptions ==
    /\ pc = "idle"
    /\ \E o \in SetOptionsOpts : Returned("setOptions", o, setOptions(o))
    /\ UNCHANGED result

ManageOffer ==
    /\ pc = "idle"
    /\ \E o \in ManageOfferOpts : Returned("manageOffer", o, manageOffer(o))
    /\ UNCHANGED result

CreatePassiveOffer ==
    /\ pc = "idle"
    /\ \E o \in CreatePassiveOfferOpts : Returned("createPassiveOffer", o, createPassiveOffer(o))
    /\ UNCHANGED result

AccountMerge ==
    /\ pc = "idle"
    /\ \E o \in AccountMergeOpts : Returned("accountMerge", o, accountMerge(o))
    /\ UNCHANGED result

Inflation ==
    /\ pc = "idle"
    /\ \E o \in InflationOpts : Returned("inflation", o, inflation(o))
    /\ UNCHANGED result

\* the caller decodes the operation it built
Decoded(r) ==
    /\ pc' = IF r.err = "" THEN "decoded" ELSE "failed"
    /\ result' = r.result
    /\ err' = r.err

OperationToObject ==
    /\ pc = "built"
    /\ Decoded(operationToObject(op))
    /\ UNCHANGED <<fn, opts0, opts, op, approximated>>

\* the caller decodes an operation it received rather than built
OperationToObjectForeign ==
    /\ pc = "idle"
    /\ \E operation \in ForeignOperations :
          /\ op' = operation
          /\ Decoded(operationToObject(operation))
    /\ fn' = "operationToObject"
    /\ UNCHANGED <<opts0, opts, approximated>>

\* the caller calls Operation.isValidAmount(value, allowZero)
IsValidAmount ==
    /\ pc = "idle"
    /\ \E v \in AmountValues, z \in BOOLEAN :
          /\ opts0' = [value |-> v, allowZero |-> z]
          /\ opts' = [value |-> v, allowZero |-> z]
          /\ result' = [type |-> "isValidAmount", valid |-> isValidAmount(v, z)]
    /\ pc' = "returned"
    /\ fn' = "isValidAmount"
    /\ UNCHANGED <<op, err, approximated>>

\* the amount conversions on their own: _toXDRAmount(value), then
\* _fromXDRAmount of the Hyper it returned
Scaled(v, h) ==
    /\ opts0' = [value |-> v]
    /\ opts' = [value |-> v]
    /\ pc' = IF h.ok THEN "scaled" ELSE "failed"
    /\ err' = IF h.ok THEN "" ELSE "Invalid hyper string"
    /\ result' = [type |-> "_toXDRAmount", hyper |-> h]

ToXDRAmount ==
    /\ pc = "idle"
    /\ \E v \in AmountValues :
          Scaled(v, IF isString(v) /\ BigNumberOfString(v.s).k # "err"
                    THEN _toXDRAmount(v) ELSE HyperFromString(<<>>))
    /\ fn' = "_toXDRAmount"
    /\ UNCHANGED <<op, approximated>>

FromXDRAmount ==
    /\ pc = "scaled"
    /\ result' = [type |-> "_fromXDRAmount", hyper |-> result.hyper,
                  amount |-> _fromXDRAmount(result.hyper)]
    /\ pc' = "returned"
    /\ fn' = "_fromXDRAmount"
    /\ UNCHANGED <<opts0, opts, op, err, approximated>>

Next ==
    \/ CreateAccount
    \/ Payment
    \/ PathPayment
    \/ ChangeTrust
    \/ AllowTrust
    \/ SetOptions
    \/ ManageOffer
    \/ CreatePassiveOffer
    \/ AccountMerge
    \/ Inflation
    \/ OperationToObject
    \/ OperationToObjectForeign
    \/ IsValidAmount
    \/ ToXDRAmount
    \/ FromXDRAmount

Spec == Init /\ [][Next]_vars

(***************************************************************************)
(* What the properties below mean by the value of a decimal string: read   *)
(* positionally from its characters, without bignumber.js.                 *)
(*   Ref(str) = [ok, neg, int, k] : str is a decimal literal (an optional  *)
(*   minus sign, digits with at most one point, an optional exponent) of   *)
(*   value (-1)^neg * int / 10^k, int a digit sequence.                    *)
(***************************************************************************)
IsDigitChar(ch) == ch \in DigitSet

IsPoint(ch) == ch = "."

RefExponent(str) ==
    IF str = <<>> THEN [ok |-> FALSE, x |-> 0]
    ELSE IF str[1] = "-" /\ Len(str) > 1 /\ Len(SelectSeq(str, IsDigitChar)) = Len(str) - 1
    THEN [ok |-> TRUE, x |-> 0 - DigitsToNat(CharsToDigits(Tail(str)))]
    ELSE IF str[1] = "+" /\ Len(str) > 1 /\ Len(SelectSeq(str, IsDigitChar)) = Len(str) - 1
    THEN [ok |-> TRUE, x |-> DigitsToNat(CharsToDigits(Tail(str)))]
    ELSE IF Len(SelectSeq(str, IsDigitChar)) = Len(str)
    THEN [ok |-> TRUE, x |-> DigitsToNat(CharsToDigits(str))]
    ELSE [ok |-> FALSE, x |-> 0]

\* mant: the characters before the exponent; x: the exponent
RefOf(neg, mant, x) ==
    LET ds     == SelectSeq(mant, IsDigitChar)
        points == Len(SelectSeq(mant, IsPoint))
        k      == IF points = 0 THEN 0 ELSE Len(mant) - IndexOf(mant, ".")
    IN  IF ~x.ok \/ ds = <<>> \/ points > 1 \/ Len(ds) + points # Len(mant)
        THEN [ok |-> FALSE, neg |-> FALSE, int |-> <<0>>, k |-> 0]
        ELSE IF x.x >= k
        THEN [ok |-> TRUE, neg |-> neg,
              int |-> StripLeading(CharsToDigits(ds) \o Zeros(x.x - k)), k |-> 0]
        ELSE [ok |-> TRUE, neg |-> neg, int |-> StripLeading(CharsToDigits(ds)),
              k |-> k - x.x]

RefBody(neg, body) ==
    IF IndexOf(body, "e") = 0
    THEN RefOf(neg, body, [ok |-> TRUE, x |-> 0])
    ELSE RefOf(neg, SubSeq(body, 1, IndexOf(body, "e") - 1),
               RefExponent(SubSeq(body, IndexOf(body, "e") + 1, Len(body))))

Ref(str) ==
    IF str # <<>> /\ str[1] = "-" THEN RefBody(TRUE, Tail(str)) ELSE RefBody(FALSE, str)

RefIsZero(r) == r.int = <<0>>

\* the number of fractional digits the value needs
RefDecimals(r) ==
    IF RefIsZero(r) THEN 0
    ELSE IF TrailingZeros(r.int) >= r.k THEN 0
    ELSE r.k - TrailingZeros(r.int)

\* the digits of value * 10^n, for a value of at most n decimals
RefScaled(r, n) ==
    IF r.k <= n THEN StripLeading(r.int \o Zeros(n - r.k))
    ELSE StripLeading(SubSeq(r.int, 1, Len(r.int) - (r.k - n)))

\* the same number
RefEqual(a, b) ==
    /\ a.ok /\ b.ok
    /\ StripLeading(a.int \o Zeros(b.k)) = StripLeading(b.int \o Zeros(a.k))
    /\ (a.neg = b.neg \/ RefIsZero(a))

Int64Ceiling == CharsToDigits(MAX_INT64)

\* a decimal written without a minus sign, of at most 7 decimals, whose
\* scaled value is at most the int64 ceiling, and not zero unless allowed
RefAcceptable(v, allowZero) ==
    /\ isString(v)
    /\ Ref(v.s).ok
    /\ ~Ref(v.s).neg
    /\ RefDecimals(Ref(v.s)) <= 7
    /\ CmpDigits(RefScaled(Ref(v.s), 7), Int64Ceiling) # 1
    /\ (allowZero \/ ~RefIsZero(Ref(v.s)))

(***************************************************************************)
(* Comparing what operationToObject returned with what the constructor was *)
(* given.                                                                  *)
(***************************************************************************)
\* the decoded amount string is the number the option v denotes
SameAmount(v, str) == isString(v) /\ RefEqual(Ref(v.s), Ref(str))

\* a digit sequence doubled
Twice(ds) == MulAdd(ds, 2, 0)

\* the decimal r is n / d rounded to DECIMAL_PLACES places:
\* | r * d - n | <= d / (2 * 10^DECIMAL_PLACES), for n and d digit sequences
IsQuotient(r, n, d) ==
    /\ r.ok /\ ~r.neg /\ r.k <= DECIMAL_PLACES
    /\ CmpDigits(Twice(MulDigits(RefScaled(r, DECIMAL_PLACES), d)),
                 AddDigits(Twice(StripLeading(n \o Zeros(DECIMAL_PLACES))), d)) # 1
    /\ CmpDigits(Twice(StripLeading(n \o Zeros(DECIMAL_PLACES))),
                 AddDigits(Twice(MulDigits(RefScaled(r, DECIMAL_PLACES), d)), d)) # 1

\* the decoded price string is the number the option v denotes
SamePrice(v, str) ==
    IF v.t = "object"
    THEN v.n > 0 /\ v.d > 0 /\ IsQuotient(Ref(str), NatToDigits(v.n), NatToDigits(v.d))
    ELSE IF v.t = "number" THEN RefEqual(Ref(DigitsToChars(NatToDigits(v.n))), Ref(str))
    ELSE SameAmount(v, str)

SameSource ==
    Truthy(opts0.source) => "source" \in DOMAIN result /\ result.source = opts0.source.s

SameOffer ==
    /\ result.selling = opts0.selling
    /\ result.buying = opts0.buying
    /\ SameAmount(opts0.amount, result.amount)
    /\ SamePrice(opts0.price, result.price)

SameFields ==
    CASE fn = "createAccount" ->
           /\ result.destination = opts0.destination.s
           /\ SameAmount(opts0.startingBalance, result.startingBalance)
      [] fn = "payment" ->
           /\ result.destination = opts0.destination.s
           /\ result.asset = opts0.asset
           /\ SameAmount(opts0.amount, result.amount)
      [] fn = "pathPayment" ->
           /\ result.sendAsset = opts0.sendAsset
           /\ SameAmount(opts0.sendMax, result.sendMax)
           /\ result.destination = opts0.destination.s
           /\ result.destAsset = opts0.destAsset
           /\ SameAmount(opts0.destAmount, result.destAmount)
           /\ result.path = opts0.path
      [] fn = "changeTrust" ->
           /\ "asset" \in DOMAIN result
           /\ result.asset = opts0.asset
           /\ ~isUndefined(opts0.limit) => SameAmount(opts0.limit, result.limit)
      [] fn = "allowTrust" ->
           /\ result.trustor = opts0.trustor.s
           /\ result.assetCode = opts0.assetCode
           /\ result.authorize = opts0.authorize
      [] fn = "setOptions" ->
           /\ Truthy(opts0.inflationDest) =>
                 /\ "inflationDest" \in DOMAIN result
                 /\ result.inflationDest = opts0.inflationDest.s
           /\ result.clearFlags = opts0.clearFlags
           /\ result.setFlags = opts0.setFlags
           /\ result.masterWeight = opts0.masterWeight
           /\ result.lowThreshold = opts0.lowThreshold
           /\ result.medThreshold = opts0.medThreshold
           /\ result.highThreshold = opts0.highThreshold
           /\ result.homeDomain = opts0.homeDomain
           /\ opts0.signer.t # "undefined" =>
                 /\ "signer" \in DOMAIN result
                 /\ result.signer.address = opts0.signer.address.s
                 /\ result.signer.weight = opts0.signer.weight
      [] fn = "manageOffer" ->
           /\ SameOffer
           /\ ~isUndefined(opts0.offerId) => result.offerId = toStringOf(opts0.offerId)
      [] fn = "createPassiveOffer" -> SameOffer
      [] fn = "accountMerge" -> result.destination = opts0.destination.s
      [] OTHER -> TRUE

\* C1: whenever a constructor succeeded on opts and operationToObject was
\* applied to the operation it returned, the decoded record has the type of
\* the variant and carries every field of the variant that opts supplied,
\* under the same name and with the same value (accounts and assets as
\* given, decimals as numbers).
RoundTrip ==
    pc = "decoded" => result.type = fn /\ SameFields /\ SameSource

\* what isValidAmount is to answer for the value v: false for a value that
\* is not a decimal string, for a number below zero, for more than 7
\* decimals and for more than the int64 ceiling after scaling; allowZero
\* for zero; true otherwise
Classified(v, allowZero) ==
    IF ~isString(v) \/ ~Ref(v.s).ok THEN FALSE
    ELSE IF RefIsZero(Ref(v.s)) THEN allowZero
    ELSE IF Ref(v.s).neg THEN FALSE
    ELSE IF RefDecimals(Ref(v.s)) > 7 THEN FALSE
    ELSE CmpDigits(RefScaled(Ref(v.s), 7), Int64Ceiling) # 1

\* C2: isValidAmount(value, allowZero) returns false for a non-numeric
\* string, a negative value, a non-finite value, NaN, a value of more than
\* 7 fractional digits and a value above 922337203685.4775807; for a value
\* that is exactly zero it returns allowZero; for every other string it
\* returns true.
ValidAmountClassified ==
    (pc = "returned" /\ fn = "isValidAmount") =>
        result.valid = Classified(opts0.value, opts0.allowZero)

\* the amount fields of each variant, each with whether zero is permitted
AmountFields(name) ==
    CASE name = "createAccount" -> {<<"startingBalance", FALSE>>}
      [] name = "payment" -> {<<"amount", FALSE>>}
      [] name = "pathPayment" -> {<<"sendMax", FALSE>>, <<"destAmount", FALSE>>}
      [] name = "changeTrust" -> {<<"limit", TRUE>>}
      [] name = "manageOffer" -> {<<"amount", TRUE>>}
      [] name = "createPassiveOffer" -> {<<"amount", FALSE>>}
      [] OTHER -> {}

\* the Hyper h holds s with 0 <= s <= MAX_INT64, and s > 0 unless allowZero
ScaledInRange(h, allowZero) ==
    /\ h.ok
    /\ ~h.neg
    /\ CmpDigits(h.mag, Int64Ceiling) # 1
    /\ (allowZero \/ h.mag # <<0>>)

\* the option v is a decimal string that denotes a number below zero, a
\* number above 922337203685.4775807, or zero where zero is not permitted
AmountOutOfRange(v, allowZero) ==
    /\ isString(v)
    /\ Ref(v.s).ok
    /\ \/ Ref(v.s).neg /\ ~RefIsZero(Ref(v.s))
       \/ ~Ref(v.s).neg /\ CmpDigits(StripLeading(Ref(v.s).int \o Zeros(7)),
                                     Int64Ceiling \o Zeros(Ref(v.s).k)) = 1
       \/ ~allowZero /\ RefIsZero(Ref(v.s))

IsScaled(h, r) ==
    /\ h.ok
    /\ ~h.neg
    /\ StripLeading(h.mag \o Zeros(r.k)) = StripLeading(r.int \o Zeros(7))

\* C4: for every amount string a that isValidAmount accepts, _toXDRAmount(a)
\* is the integer a * 10^7 exactly, and _fromXDRAmount of that integer is a
\* decimal string of the same value as a; an amount that needs 8 or more
\* fractional digits is rejected by isValidAmount, and by every constructor
\* that takes it, so it is never scaled.
ExactScaling ==
    /\ (fn \in {"_toXDRAmount", "_fromXDRAmount"} /\ isValidAmount(opts0.value, TRUE)) =>
          /\ pc \in {"scaled", "returned"}
          /\ IsScaled(result.hyper, Ref(opts0.value.s))
          /\ pc = "returned" => RefEqual(Ref(result.amount), Ref(opts0.value.s))
    /\ (fn \in {"_toXDRAmount", "_fromXDRAmount", "isValidAmount"} /\ isString(opts0.value)
        /\ Ref(opts0.value.s).ok /\ RefDecimals(Ref(opts0.value.s)) > 7) =>
          /\ ~isValidAmount(opts0.value, TRUE)
          /\ fn = "isValidAmount" => ~result.valid
    /\ \A f \in AmountFields(fn) :
          (isString(opts0[f[1]]) /\ Ref(opts0[f[1]].s).ok
           /\ RefDecimals(Ref(opts0[f[1]].s)) > 7) => pc = "failed"

\* "10.1234567" was scaled to 101234567 and converted back
ExactScalingWitness ==
    /\ pc = "returned"
    /\ fn = "_fromXDRAmount"
    /\ opts0.value = Str(<<"1","0",".","1","2","3","4","5","6","7">>)
    /\ result.hyper.mag = <<1,0,1,2,3,4,5,6,7>>
    /\ result.amount = <<"1","0",".","1","2","3","4","5","6","7">>

Offers == {"manageOffer", "createPassiveOffer"}

\* a JavaScript integer above zero
IsPositive(x) == ~x.neg /\ x.mag # <<0>>

\* the number a decimal price option denotes
PriceRef(v) ==
    IF v.t = "string" THEN Ref(v.s)
    ELSE IF v.t = "number" /\ v.n >= 0 THEN Ref(DigitsToChars(NatToDigits(v.n)))
    ELSE IF v.t = "number" THEN Ref(<<"-">> \o DigitsToChars(NatToDigits(0 - v.n)))
    ELSE Ref(<<>>)

\* the price option is a pair with a term that is not above zero, or a
\* decimal that is not above zero
NotPositive(v) ==
    \/ v.t = "object" /\ (v.n <= 0 \/ v.d <= 0)
    \/ v.t \in {"string", "number"} /\ PriceRef(v).ok
       /\ (PriceRef(v).neg \/ RefIsZero(PriceRef(v)))

\* C5: every price a constructor encoded has n > 0 and d > 0, and
\* construction has failed whenever the price supplied is a pair with a
\* term that is not strictly positive, zero included, or a decimal that is
\* not strictly positive.
PricePositive ==
    fn \in Offers =>
        /\ pc \in {"built", "decoded"} =>
              IsPositive(op.body.value.price.n) /\ IsPositive(op.body.value.price.d)
        /\ NotPositive(opts0.price) => pc = "failed"

\* manageOffer rejected the price -1/2 in its positivity check
PricePositiveWitness ==
    /\ pc = "failed"
    /\ fn = "manageOffer"
    /\ opts0.price = Ratio(-1, 2)
    /\ err = "price must be positive"

\* the decimal r is exactly n / d
IsExactly(r, n, d) ==
    MulDigits(n, <<1>> \o Zeros(r.k)) = MulDigits(r.int, d)

\* the decimal r is a fraction of two terms within the 32-bit range as it
\* is written
WrittenIn32Bits(r) ==
    /\ r.ok
    /\ CmpDigits(r.int, MaxInt32Digits) # 1
    /\ CmpDigits(<<1>> \o Zeros(r.k), MaxInt32Digits) # 1

\* C6: a price given as a pair is encoded exactly as that n and d, without
\* a call of the approximator; any other price is taken as a decimal and
\* encoded as the approximator's fraction of it (0.5 as 1/2); and decoding
\* returns the decimal string of n / d.
PriceEncoding ==
    fn \in Offers =>
        /\ opts0.price.t = "object" =>
              /\ ~approximated
              /\ pc \in {"built", "decoded"} =>
                    /\ op.body.value.price.n = JSNumber(opts0.price.n)
                    /\ op.body.value.price.d = JSNumber(opts0.price.d)
        /\ (opts0.price.t # "object" /\ pc \in {"built", "decoded"}) =>
              /\ approximated
              /\ WrittenIn32Bits(PriceRef(opts0.price)) =>
                    IsExactly(PriceRef(opts0.price), op.body.value.price.n.mag,
                              op.body.value.price.d.mag)
              /\ opts0.price = Str(<<"0",".","5">>) =>
                    /\ op.body.value.price.n = JSNumber(1)
                    /\ op.body.value.price.d = JSNumber(2)
        /\ pc = "decoded" =>
              IsQuotient(Ref(result.price), op.body.value.price.n.mag,
                         op.body.value.price.d.mag)

\* the price 1/3 was encoded as given and decoded as twenty threes
PriceEncodingWitness ==
    /\ pc = "decoded"
    /\ fn = "manageOffer"
    /\ opts0.price = Ratio(1, 3)
    /\ op.body.value.price.n = JSNumber(1)
    /\ op.body.value.price.d = JSNumber(3)
    /\ ~approximated
    /\ result.price = <<"0", ".">> \o [i \in 1..DECIMAL_PLACES |-> "3"]

\* C7: the numerator and the denominator the approximator returned are at
\* most 2147483647 each: the expansion stops before the step that would
\* exceed it and the last convergent within the range is the result, as
\* 1500000000/1 for 1500000000.5, whose next convergent is 3000000001/2.
ApproximationFits ==
    (fn \in Offers /\ pc \in {"built", "decoded"} /\ approximated) =>
        /\ CmpDigits(op.body.value.price.n.mag, MaxInt32Digits) # 1
        /\ CmpDigits(op.body.value.price.d.mag, MaxInt32Digits) # 1
        /\ opts0.price = Str(<<"1","5","0","0","0","0","0","0","0","0",".","5">>) =>
              /\ op.body.value.price.n.mag = <<1,5,0,0,0,0,0,0,0,0>>
              /\ op.body.value.price.d.mag = <<1>>

\* the expansion of 1500000000.5 stopped at 1500000000/1
ApproximationFitsWitness ==
    /\ pc = "built"
    /\ fn = "createPassiveOffer"
    /\ approximated
    /\ opts0.price = Str(<<"1","5","0","0","0","0","0","0","0","0",".","5">>)
    /\ op.body.value.price.n.mag = <<1,5,0,0,0,0,0,0,0,0>>
    /\ op.body.value.price.d.mag = <<1>>

Built == pc \in {"built", "decoded"}

CodeWidth(code) == IF Len(code) <= 4 THEN 4 ELSE 12

\* the bytes are the code followed by NUL bytes up to the width
IsPadded(bytes, code, width) ==
    /\ Len(bytes) = width
    /\ \A i \in 1..width : bytes[i] = IF i <= Len(code) THEN code[i] ELSE NUL

\* C9: allowTrust encodes an asset code of at most 4 characters in the
\* 4-byte form and one of 5 to 12 characters in the 12-byte form, each
\* padded on the right with NUL bytes to the full width; a code of more
\* than 12 characters fails; and the assetCode decoded is the original
\* code, without the padding.
AssetCodePadding ==
    fn = "allowTrust" =>
        /\ Len(opts0.assetCode) > 12 => pc = "failed"
        /\ (Len(opts0.assetCode) <= 12 /\ opts0.trustor = Str(GA)
            /\ opts0.source \in {Undefined, Str(GB), Str(<<>>)}) => Built
        /\ Built =>
              /\ op.body.value.asset.type =
                    (IF Len(opts0.assetCode) <= 4 THEN "assetTypeCreditAlphanum4"
                     ELSE "assetTypeCreditAlphanum12")
              /\ IsPadded(op.body.value.asset.value, opts0.assetCode,
                          CodeWidth(opts0.assetCode))
        /\ pc = "decoded" => result.assetCode = opts0.assetCode

\* the code USDC went into the 4-byte form unpadded, USDCX would take 12
AssetCodePaddingWitness ==
    /\ pc = "decoded"
    /\ fn = "allowTrust"
    /\ opts0.assetCode = <<"U","S","D","C">>
    /\ op.body.value.asset = [type |-> "assetTypeCreditAlphanum4", value |-> <<"U","S","D","C">>]
    /\ result.assetCode = <<"U","S","D","C">>

\* a weight or threshold option that is a number outside 0..255
NotAByte(v) == v.t = "number" /\ v.n \notin 0..255

\* a weight or threshold as encoded: absent, or a number in 0..255
ByteOrAbsent(v) == isUndefined(v) \/ (v.t = "number" /\ v.n \in 0..255)

AnyNotAByte(o) ==
    \/ NotAByte(o.masterWeight)
    \/ NotAByte(o.lowThreshold)
    \/ NotAByte(o.medThreshold)
    \/ NotAByte(o.highThreshold)
    \/ o.signer.t # "undefined" /\ NotAByte(o.signer.weight)

\* what setOptions validates besides the weights
OtherOptionsValid(o) ==
    /\ ~Truthy(o.inflationDest) \/ o.inflationDest \in {Str(GA), Str(GB)}
    /\ isUndefined(o.homeDomain) \/ isString(o.homeDomain)
    /\ o.signer.t = "undefined" \/ o.signer.address \in {Str(GA), Str(GB)}
    /\ ~Truthy(o.source) \/ o.source \in {Str(GA), Str(GB)}

\* C10: setOptions has failed whenever masterWeight, lowThreshold,
\* medThreshold, highThreshold or signer.weight is present and outside
\* 0..255; it succeeds when each of them is absent or within 0..255 (the
\* other options being valid); and every such field of an operation it
\* returned is within 0..255.
WeightsInRange ==
    fn = "setOptions" =>
        /\ AnyNotAByte(opts0) => pc = "failed"
        /\ (~AnyNotAByte(opts0) /\ OtherOptionsValid(opts0)) => Built
        /\ Built =>
              /\ ByteOrAbsent(op.body.value.masterWeight)
              /\ ByteOrAbsent(op.body.value.lowThreshold)
              /\ ByteOrAbsent(op.body.value.medThreshold)
              /\ ByteOrAbsent(op.body.value.highThreshold)
              /\ ByteOrAbsent(op.body.value.signer.weight)

\* setOptions accepted the two ends of the range, 255 and 0
WeightsInRangeWitness ==
    /\ pc = "built"
    /\ fn = "setOptions"
    /\ opts0.masterWeight = Num(255)
    /\ opts0.lowThreshold = Num(0)
    /\ opts0.signer.t # "undefined"
    /\ opts0.signer.weight = Num(255)
    /\ op.body.value.masterWeight = Num(255)
    /\ op.body.value.signer.weight = Num(255)

(***************************************************************************)
(* Errors abort the call.                                                  *)
(***************************************************************************)
TenVariants ==
    {"createAccount", "payment", "pathPayment", "changeTrust", "allowTrust", "setOption",
     "manageOffer", "createPassiveOffer", "accountMerge", "inflation"}

ConstructorNames ==
    {"createAccount", "payment", "pathPayment", "changeTrust", "allowTrust", "setOptions",
     "manageOffer", "createPassiveOffer", "accountMerge", "inflation"}

\* C11: operationToObject of an operation whose variant tag is none of the
\* ten known ones throws "Unknown operation" and returns no record, not even
\* one holding the source; and a constructor that fails throws an error and
\* returns no operation, while one that returns has thrown nothing.
UnknownOperationRaises ==
    /\ (fn = "operationToObject" /\ op.body.switch \notin TenVariants)
          => pc = "failed" /\ err = "Unknown operation" /\ result = NoResult
    /\ (pc = "failed" /\ fn \in ConstructorNames)
          => err # "" /\ op = NoOperation /\ result = NoResult
    /\ (pc \in {"built", "decoded"} /\ fn \in ConstructorNames)
          => err = "" /\ op.body.switch \in TenVariants
    /\ pc = "decoded" => result.type \in ConstructorNames

\* an operation of an unknown variant that carries a source account was
\* given to operationToObject
UnknownOperationRaisesWitness ==
    /\ fn = "operationToObject"
    /\ op.body.switch \notin TenVariants
    /\ op.sourceAccount # 0
    /\ pc = "failed"

(***************************************************************************)
(* The caller's options record.                                            *)
(***************************************************************************)
\* C12: after a call of any of the ten constructors, returned or thrown,
\* the caller's options record has the fields and values it had before the
\* call; in particular manageOffer leaves opts.offerId as it was supplied.
OptionsUntouched == fn \in ConstructorNames => opts = opts0

(***************************************************************************)
(* The source account override.                                            *)
(***************************************************************************)
\* a source option was given
SourcePresent(o) == ~isUndefined(o.source)

\* the decoded record has a source field exactly when op carries an
\* override, and it is the identifier supplied
SourceDecoded ==
    /\ ("source" \in DOMAIN result) <=> (op.sourceAccount # 0)
    /\ "source" \in DOMAIN result => Str(result.source) = opts0.source

\* C13: for every constructor, a source option that is present and not a
\* valid account identifier makes construction fail, with the invalid-source
\* error when nothing else is wrong (inflation validates nothing else), and
\* that error is raised for nothing else; a valid source is carried as the
\* operation's source account, an absent one leaves the operation without
\* one; operationToObject returns a source field exactly when the operation
\* carries one, equal to the identifier supplied.
SourceOverride ==
    (fn \in ConstructorNames /\ pc # "idle") =>
        /\ (SourcePresent(opts0) /\ ~isValidAccountId(opts0.source)) => pc = "failed"
        /\ (fn = "inflation" /\ SourcePresent(opts0) /\ ~isValidAccountId(opts0.source))
              => err = "Source address is invalid"
        /\ err = "Source address is invalid"
              => SourcePresent(opts0) /\ ~isValidAccountId(opts0.source)
        /\ (Built /\ SourcePresent(opts0))
              => op.sourceAccount # 0 /\ Str(accountIdtoAddress(op.sourceAccount)) = opts0.source
        /\ (Built /\ ~SourcePresent(opts0)) => op.sourceAccount = 0
        /\ pc = "decoded" => SourceDecoded

(***************************************************************************)
(* Amounts that are not strings.                                           *)
(***************************************************************************)
\* the amount option named field was given and is not a string
NonStringAmount(name, field) ==
    /\ ~isString(opts0[field])
    /\ name = "changeTrust" => ~isUndefined(opts0[field])

\* C14: isValidAmount is false of every value that is not a string, a
\* number or a decimal object of value 1 included, and every amount-taking
\* constructor given an amount that is not a string (for changeTrust, a
\* limit that was given) has thrown and returned no operation.
NonStringAmountRejected ==
    /\ (fn = "isValidAmount" /\ ~isString(opts0.value)) => ~result.valid
    /\ \A f \in AmountFields(fn) :
          NonStringAmount(fn, f[1]) => pc = "failed" /\ err # "" /\ op = NoOperation

\* payment was given the decimal object 1 as amount, everything else valid
NonStringAmountRejectedWitness ==
    /\ fn = "payment"
    /\ opts0.amount = BigNumberObject(<<"1">>)
    /\ isValidAccountId(opts0.destination)
    /\ opts0.asset.t # "undefined"
    /\ pc = "failed"
    /\ err = "amount argument must be of type String and represent a positive number"

====
